---- MODULE Spec2Model ----
(***************************************************************************)
(* A model of the GraphQL gateway of src/lib/index.js: the schema text and *)
(* resolver map composed when the module is loaded, the helpers that build *)
(* and issue the outbound backend calls, the field resolvers of the two    *)
(* resources, the error formatter and the bearer-token middleware.         *)
(*                                                                         *)
(* JavaScript values are tagged records ([t |-> "str", s |-> ...], ...).   *)
(* A string that the code builds, encodes or matches is a sequence of      *)
(* atoms: an atom is one character, or a run of characters that the code   *)
(* never looks inside ("http://", a host name, a decimal number).          *)
(***************************************************************************)
EXTENDS Integers, Sequences, FiniteSets, TLC

VARIABLES
    schema,     \* what the module holds after loading: typeDefs, resolvers
    ctx,        \* ctx[r]: the koa context of inbound request r
    context,    \* context[r]: the resolver context graphqlKoa builds for r
    call,       \* call[r]: the generalRequest invocation made for r
    response,   \* response[r]: the GraphQL response of r
    query       \* the last addParams invocation: input and returned url

vars == <<schema, ctx, context, call, response, query>>

----------------------------------------------------------------------------
(* Bounds of the model *)

NumReq == 2         \* concurrent inbound requests
MaxTokLen == 2      \* characters after the scheme in an Authorization header
MaxParams == 2      \* entries of a parameter mapping given to addParams
MaxArr == 2         \* elements of an array-valued parameter

----------------------------------------------------------------------------
(* JavaScript values *)

Undefined == [t |-> "undefined"]
Null == [t |-> "null"]
Bool(b) == [t |-> "bool", b |-> b]
Num(n) == [t |-> "num", n |-> n]
Str(s) == [t |-> "str", s |-> s]
Arr(a) == [t |-> "arr", elems |-> a]
Obj(p) == [t |-> "obj", props |-> p]
Text(chars) == [t |-> "text", chars |-> chars]     \* a string, character by character

\* ToBoolean: undefined, null, false, 0 and '' are falsy; arrays and objects
\* (the empty ones too) are truthy.
Truthy(v) ==
    CASE v.t = "undefined" -> FALSE
      [] v.t = "null" -> FALSE
      [] v.t = "bool" -> v.b
      [] v.t = "num" -> v.n # 0
      [] v.t = "str" -> v.s # ""
      [] v.t = "text" -> v.chars # <<>>
      [] OTHER -> TRUE

\* Property read v[k]: undefined when v has no such property.
Get(v, k) ==
    IF v.t \in {"obj", "error"} /\ k \in DOMAIN v.props THEN v.props[k] ELSE Undefined

\* Template-literal conversion `${v}` of a scalar, as the atoms it appends.
ToText(v) ==
    CASE v.t = "undefined" -> <<"undefined">>
      [] v.t = "null" -> <<"null">>
      [] v.t = "bool" -> IF v.b THEN <<"true">> ELSE <<"false">>
      [] v.t = "num" -> <<ToString(v.n)>>
      [] v.t = "str" -> IF v.s = "" THEN <<>> ELSE <<v.s>>
      [] OTHER -> <<"[object Object]">>

\* Array.prototype.join on a list of texts.
RECURSIVE Join(_, _)
Join(list, sep) ==
    IF list = <<>> THEN <<>>
    ELSE IF Len(list) = 1 THEN list[1]
    ELSE list[1] \o sep \o Join(Tail(list), sep)

\* A record of two properties, a helper for the maps below.
Pair(k1, v1, k2, v2) == [k \in {k1, k2} |-> IF k = k1 THEN v1 ELSE v2]

----------------------------------------------------------------------------
(* Schema fragments: the token sequences of the template strings *)

NL == <<"\n">>

ScalarJSON == <<"scalar", "JSON">>

coursesTypeDef ==
    <<"type", "Course", "{",
        "code", ":", "Int!", "name", ":", "String!",
        "credits", ":", "Int!", "professor", ":", "String!", "}",
      "input", "CourseInput", "{",
        "name", ":", "String!", "credits", ":", "Int!",
        "professor", ":", "String!", "}">>

coursesQueries ==
    <<"allCourses", ":", "[Course]!",
      "courseByCode", "(", "code", ":", "Int!", ")", ":", "Course!">>

coursesMutations ==
    <<"createCourse", "(", "course", ":", "CourseInput!", ")", ":", "Course!",
      "deleteCourse", "(", "code", ":", "Int!", ")", ":", "Int",
      "updateCourse", "(", "code", ":", "Int!", ",",
                          "course", ":", "CourseInput!", ")", ":", "Course!">>

studentsTypeDef ==
    <<"type", "Student", "{",
        "code", ":", "Int!", "username", ":", "String!",
        "password", ":", "String!", "}",
      "input", "StudentInput", "{",
        "username", ":", "String!", "password", ":", "String!", "}">>

studentsQueries ==
    <<"allStudents", ":", "[Student]!",
      "studentByCode", "(", "code", ":", "Int!", ")", ":", "Student!">>

studentsMutations ==
    <<"createStudent", "(", "student", ":", "StudentInput!", ")", ":", "Student!",
      "deleteStudent", "(", "code", ":", "Int!", ")", ":", "Int",
      "updateStudent", "(", "code", ":", "Int!", ",",
                           "student", ":", "StudentInput!", ")", ":", "Student!">>

\* mergeSchemas: the type definitions, then one Query and one Mutation block.
mergeSchemas(typeDefs, queries, mutations) ==
    Join(typeDefs, NL)
      \o NL \o <<"type", "Query", "{">> \o Join(queries, NL) \o <<"}">>
      \o NL \o <<"type", "Mutation", "{">> \o Join(mutations, NL) \o <<"}">>

\* The six argument lists of the call that composes the schema.
mergeArguments ==
    << <<ScalarJSON, coursesTypeDef>>, <<coursesQueries>>, <<coursesMutations>>,
       <<ScalarJSON, studentsTypeDef>>, <<studentsQueries>>, <<studentsMutations>> >>

\* A variant of the call in which the composer takes all six lists.
mergedTypeDefs_AllLists ==
    mergeSchemas(mergeArguments[1] \o mergeArguments[4],
                 mergeArguments[2] \o mergeArguments[5],
                 mergeArguments[3] \o mergeArguments[6])

\* The call binds its first three arguments to mergeSchemas' three
\* parameters; a JavaScript call drops the arguments beyond the parameters.
mergedTypeDefs ==
    mergeSchemas(mergeArguments[1], mergeArguments[2], mergeArguments[3])

----------------------------------------------------------------------------
(* Reading a schema text back: what the execution engine's parser finds *)

\* Number of declarations `keyword name` in the text.
Declarations(text, keyword, name) ==
    Cardinality({i \in 1..(Len(text) - 1) : text[i] = keyword /\ text[i + 1] = name})

\* Names declared with the keyword.
Declared(text, keyword) ==
    {text[i + 1] : i \in {j \in 1..(Len(text) - 1) : text[j] = keyword}}

\* Positions of the opening braces of the blocks `type name {`.
BlockStarts(text, name) ==
    {i \in 3..Len(text) : text[i] = "{" /\ text[i - 1] = name /\ text[i - 2] = "type"}

\* Position of the brace closing the block opened at position open.
BlockEnd(text, open) ==
    CHOOSE j \in (open + 1)..Len(text) :
        text[j] = "}" /\ \A k \in (open + 1)..(j - 1) : text[k] # "}"

\* Parentheses open at position j of a block opened at position open.
ParenDepth(text, open, j) ==
    Cardinality({k \in open..j : text[k] = "("})
      - Cardinality({k \in open..j : text[k] = ")"})

\* Field names of the blocks `type name { ... }`: the names outside any
\* argument list that an argument list or a type follows.
BlockFields(text, name) ==
    UNION {
        {text[j] : j \in {k \in (open + 1)..(BlockEnd(text, open) - 1) :
                            /\ text[k + 1] \in {":", "("}
                            /\ text[k] \notin {")", "\n"}
                            /\ ParenDepth(text, open, k) = 0}}
        : open \in BlockStarts(text, name)}

----------------------------------------------------------------------------
(* Resolver maps and the schema object *)

\* Argument names the schema fragments declare for a field: the names
\* between the field's parentheses that a type follows.
DeclaredArgsIn(fragment, field) ==
    UNION {
        {fragment[j] : j \in {k \in (i + 2)..(Len(fragment) - 1) :
                                /\ fragment[k + 1] = ":"
                                /\ \A m \in (i + 1)..k : fragment[m] # ")"}}
        : i \in {n \in 1..(Len(fragment) - 1) :
                    fragment[n] = field /\ fragment[n + 1] = "("}}

DeclaredArgs(field) ==
    UNION {DeclaredArgsIn(fragment, field) :
             fragment \in {coursesQueries, coursesMutations,
                           studentsQueries, studentsMutations}}

\* A resolver map: type name -> field name -> the resolver function, named
\* by the field it is defined under.
resolvers ==
    Pair("Query", [f \in {"allCourses", "courseByCode"} |-> f],
         "Mutation", [f \in {"createCourse", "updateCourse", "deleteCourse"} |-> f])

resolvers_1 ==
    Pair("Query", [f \in {"allStudents", "studentByCode"} |-> f],
         "Mutation", [f \in {"createStudent", "updateStudent", "deleteStudent"} |-> f])

JSONResolver == [k \in {"JSON"} |-> [f \in {"__scalar"} |-> "GraphQLJSON"]]

\* lodash.merge of two maps of maps: the keys of both, a key of both merged
\* key by key with the later source winning.
merge(object, source) ==
    [k \in DOMAIN object \cup DOMAIN source |->
        IF k \notin DOMAIN source THEN object[k]
        ELSE IF k \notin DOMAIN object THEN source[k]
        ELSE [f \in DOMAIN object[k] \cup DOMAIN source[k] |->
                IF f \in DOMAIN source[k] THEN source[k][f] ELSE object[k][f]]]

mergedResolvers == merge(merge(JSONResolver, resolvers), resolvers_1)

\* Resolver keys <<Type, field>> of a map that the text declares no field
\* for.
NotInSchema(typeDefs, resolverMap) ==
    {<<T, f>> \in {"Query", "Mutation"}
                    \X UNION {DOMAIN resolverMap[U] : U \in DOMAIN resolverMap} :
        /\ T \in DOMAIN resolverMap
        /\ f \in DOMAIN resolverMap[T]
        /\ f \notin BlockFields(typeDefs, T)}

\* makeExecutableSchema: the schema object, with the resolvers it refuses
\* (SchemaError: '... defined in resolvers, but not in schema') because the
\* text declares no such field. The handlers further down are modelled as
\* the module defines them, whatever this set holds, so that what each of
\* them does is settled on its own.
makeExecutableSchema(typeDefs, resolverMap) ==
    [typeDefs |-> typeDefs,
     resolvers |-> resolverMap,
     notInSchema |-> NotInSchema(typeDefs, resolverMap)]

graphQLSchema == makeExecutableSchema(mergedTypeDefs, mergedResolvers)

----------------------------------------------------------------------------
(* Backend configuration and the request helpers *)

\* process.env of the two resources (host, port, path segment).
url == "courses-host"
port == "4000"
entryPoint == "courses"
url_1 == "students-host"
port_1 == "4001"
entryPoint_1 == "students"

URL == <<"http://", url, ":", port, "/", entryPoint>>

URL_1 == <<"http://", url_1, ":", port_1, "/", entryPoint_1>>

\* An unpaired UTF-16 surrogate, which encodeURI refuses.
LoneSurrogate == "\\uD800"

\* encodeURI: throws URIError on an unpaired surrogate, escapes the
\* characters a URI may not hold, keeps the others.
encodeURI(text) ==
    IF \E i \in 1..Len(text) : text[i] = LoneSurrogate
    THEN [threw |-> TRUE, text |-> <<>>]
    ELSE [threw |-> FALSE,
          text |-> [i \in 1..Len(text) |->
                      CASE text[i] = " " -> "%20"
                        [] text[i] = "\"" -> "%22"
                        [] OTHER -> text[i]]]

URIError ==
    [t |-> "error",
     props |-> Pair("name", Str("URIError"), "message", Str("URI malformed"))]

\* generalRequest up to its await: the parameters object is built first
\* (encodeURI runs outside the try block, so its exception rejects the
\* promise of the async function), then the request is issued.
generalRequest(reqUrl, method, body) ==
    LET uri == encodeURI(reqUrl) IN
    IF uri.threw
    THEN [state |-> "rejected", url |-> reqUrl, method |-> method, body |-> body,
          uri |-> <<>>, value |-> URIError]
    ELSE [state |-> "pending", url |-> reqUrl, method |-> method, body |-> body,
          uri |-> uri.text, value |-> Undefined]

\* One 'key=value&' run of addParams for one enumerable property: nothing
\* unless it is an own property with a truthy value; an array is joined
\* with '&key=' between its elements.
ParamSegment(p) ==
    IF p.own /\ Truthy(p.value)
    THEN IF p.value.t = "arr"
         THEN <<p.key, "=">>
                \o Join([i \in 1..Len(p.value.elems) |-> <<p.value.elems[i]>>],
                        <<"&", p.key, "=">>)
                \o <<"&">>
         ELSE <<p.key, "=">> \o ToText(p.value) \o <<"&">>
    ELSE <<>>

\* addParams: url + '?' + the runs of the properties in for-in order.
\* parameters is the list of enumerable properties, empty for undefined.
addParams(baseUrl, parameters) ==
    baseUrl \o <<"?">>
      \o Join([i \in 1..Len(parameters) |-> ParamSegment(parameters[i])], <<>>)

\* A variant of getRequest that sends the path as it is.
getRequest_NoQuery(baseUrl, path, parameters) ==
    generalRequest(baseUrl \o <<"/">> \o path, "GET", Undefined)

getRequest(baseUrl, path, parameters) ==
    generalRequest(addParams(baseUrl \o <<"/">> \o path, parameters), "GET", Undefined)

\* The ten resolver functions, applied to the field arguments. A
\* destructured argument that the caller did not pass is undefined.
Arg(args, name) == IF name \in DOMAIN args THEN args[name] ELSE Undefined

Resolve(fn, args) ==
    CASE fn = "allCourses" -> getRequest(URL, <<>>, <<>>)
      [] fn = "courseByCode" ->
            generalRequest(URL \o <<"/">> \o ToText(Arg(args, "code")), "GET", Undefined)
      [] fn = "createCourse" ->
            generalRequest(URL, "POST", Arg(args, "course"))
      [] fn = "updateCourse" ->
            generalRequest(URL \o <<"/">> \o ToText(Arg(args, "code")), "PUT",
                           Arg(args, "course"))
      [] fn = "deleteCourse" ->
            generalRequest(URL \o <<"/">> \o ToText(Arg(args, "code")), "DELETE", Undefined)
      [] fn = "allStudents" -> getRequest(URL_1, <<>>, <<>>)
      [] fn = "studentByCode" ->
            generalRequest(URL_1 \o <<"/">> \o ToText(Arg(args, "code")), "GET", Undefined)
      [] fn = "createStudent" ->
            generalRequest(URL_1, "POST", Arg(args, "course"))
      [] fn = "updateStudent" ->
            generalRequest(URL_1 \o <<"/">> \o ToText(Arg(args, "code")), "PUT",
                           Arg(args, "course"))
      [] fn = "deleteStudent" ->
            generalRequest(URL_1 \o <<"/">> \o ToText(Arg(args, "code")), "DELETE", Undefined)

----------------------------------------------------------------------------
(* Errors and their formatting *)

\* What request(parameters) settles with. A refused or broken connection
\* rejects with a RequestError whose error property is the cause; a non-2xx
\* status rejects with a StatusCodeError whose error property is the
\* response body; anything else resolves with the body (json: true leaves a
\* body that does not parse as the text it is).
Settled(outcome) ==
    CASE outcome.kind = "resolve" -> outcome.body
      [] outcome.kind = "RequestError" ->
            [t |-> "error",
             props |-> [k \in {"name", "message", "error"} |->
                          CASE k = "name" -> Str("RequestError")
                            [] k = "message" -> Str("Error: connect ECONNREFUSED")
                            [] k = "error" -> outcome.body]]
      [] outcome.kind = "StatusCodeError" ->
            [t |-> "error",
             props |-> [k \in {"name", "message", "error"} |->
                          CASE k = "name" -> Str("StatusCodeError")
                            [] k = "message" -> Str("500 - response")
                            [] k = "error" -> outcome.body]]

\* try { return await request(parameters) } catch (err) { return err }
generalRequestReturn(pending, outcome) ==
    [pending EXCEPT !.state = "returned", !.value = Settled(outcome)]

\* The executor's error for a field whose resolver returned (or was
\* rejected with) an Error: message and path of the field, the Error kept as
\* originalError.
LocatedError(err, path) ==
    [message |-> Get(err, "message"), locations |-> "locations", path |-> path,
     originalError |-> err]

\* An executor error with no original error (a request that does not parse).
SyntaxError ==
    [message |-> Str("Syntax Error"), locations |-> "locations", path |-> Undefined,
     originalError |-> Undefined]

\* graphql.formatError
formatError(error) ==
    [message |-> error.message, locations |-> error.locations, path |-> error.path]

formatErr(error) ==
    LET data == formatError(error)
        originalError == error.originalError
    IN  IF Truthy(originalError) /\ Truthy(Get(originalError, "error"))
        THEN [message |-> Get(Get(originalError, "error"), "id"),
              code |-> Get(Get(originalError, "error"), "code"),
              description |-> Get(Get(originalError, "error"), "description"),
              path |-> data.path]
        ELSE data

----------------------------------------------------------------------------
(* The Authorization header and the token middleware *)

AlNum ==
    {"A", "B", "C", "D", "E", "F", "G", "H", "I", "J", "K", "L", "M", "N", "O", "P",
     "Q", "R", "S", "T", "U", "V", "W", "X", "Y", "Z",
     "a", "b", "c", "d", "e", "f", "g", "h", "i", "j", "k", "l", "m", "n", "o", "p",
     "q", "r", "s", "t", "u", "v", "w", "x", "y", "z",
     "0", "1", "2", "3", "4", "5", "6", "7", "8", "9"}

BearerLiteral == <<"B", "e", "a", "r", "e", "r", " ">>

\* header.match(/Bearer ([A-Za-z0-9]+)/): null, or the capture group of the
\* leftmost match, which takes the longest run of letters and digits.
MatchBearer(chars) ==
    LET n == Len(BearerLiteral)
        starts == {i \in 1..(Len(chars) - n) :
                     /\ SubSeq(chars, i, i + n - 1) = BearerLiteral
                     /\ chars[i + n] \in AlNum}
    IN  IF starts = {} THEN Null
        ELSE LET i == CHOOSE k \in starts : \A m \in starts : k <= m
                 last == CHOOSE j \in (i + n)..Len(chars) :
                            /\ \A k \in (i + n)..j : chars[k] \in AlNum
                            /\ (j = Len(chars) \/ chars[j + 1] \notin AlNum)
             IN  Text(SubSeq(chars, i + n, last))

\* The token the middleware leaves in ctx.state for a header.
StateToken(header) ==
    IF Truthy(header) /\ Truthy(MatchBearer(header.chars))
    THEN MatchBearer(header.chars)
    ELSE Undefined

----------------------------------------------------------------------------
(* Inputs *)

Reqs == 1..NumReq
Callers == {0} \cup Reqs        \* 0: a caller of generalRequest outside a request

RECURSIVE SeqsUpTo(_, _)
SeqsUpTo(S, n) ==
    IF n = 0 THEN {<<>>}
    ELSE SeqsUpTo(S, n - 1)
           \cup {Append(q, x) : q \in {p \in SeqsUpTo(S, n - 1) : Len(p) = n - 1}, x \in S}

Schemes == {BearerLiteral, <<"B", "a", "s", "i", "c", " ">>, <<"x">> \o BearerLiteral}

Headers ==
    {Undefined, Text(<<>>)}
      \cup {Text(scheme \o tail) : scheme \in Schemes, tail \in SeqsUpTo({"a", "-"}, MaxTokLen)}

Codes == {3, 7}
CoursePayload == Obj([k \in {"name"} |-> Str("Algorithms")])
StudentPayload == Obj([k \in {"username"} |-> Str("ada")])

\* The arguments the engine passes for a field: one per declared argument.
ArgsOf(field) ==
    {[k \in DeclaredArgs(field) |->
        CASE k = "code" -> Num(c)
          [] k = "course" -> CoursePayload
          [] k = "student" -> StudentPayload] : c \in Codes}

Structured ==
    Obj([k \in {"id", "code", "description"} |->
           CASE k = "id" -> Str("E1")
             [] k = "code" -> Num(404)
             [] k = "description" -> Str("not found")])

ConnectionRefused ==
    [t |-> "error",
     props |-> Pair("code", Str("ECONNREFUSED"), "message", Str("connect ECONNREFUSED"))]

Outcomes ==
    {[kind |-> "resolve", body |-> b] :
         b \in {CoursePayload, Num(1), Str("<html>"), Obj([k \in {"error"} |-> Structured])}}
      \cup {[kind |-> "RequestError", body |-> ConnectionRefused]}
      \cup {[kind |-> "StatusCodeError", body |-> b] :
         b \in {Structured, Obj([k \in {"error"} |-> Structured]), Undefined,
                Str("Not Found")}}

DirectUrls ==
    {<<"http://", "host", "/", "path">>,
     <<"http://", "host", "/", "a", " ", "b">>,
     <<"http://", "host", "/", LoneSurrogate>>}

Methods == {"GET", "POST", "PUT", "DELETE"}

ParamValues ==
    {Undefined, Null, Bool(FALSE), Bool(TRUE), Num(0), Num(5), Str(""), Str("z")}
      \cup {Arr(a) : a \in SeqsUpTo({"x", "y"}, MaxArr)}

ParamKeys == <<"a", "b", "c", "d">>

\* Parameter mappings: up to MaxParams properties in for-in order, each an
\* own or an inherited one, and the mapping of the documented example.
ParamLists ==
    UNION {[1..n -> [key : {"k"}, value : ParamValues, own : BOOLEAN]] : n \in 0..MaxParams}

Keyed(list) == [i \in 1..Len(list) |-> [list[i] EXCEPT !.key = ParamKeys[i]]]

ExampleParams ==
    <<[key |-> "a", value |-> Arr(<<"x", "y">>), own |-> TRUE],
      [key |-> "b", value |-> Num(0), own |-> TRUE],
      [key |-> "c", value |-> Null, own |-> TRUE],
      [key |-> "d", value |-> Str("z"), own |-> TRUE]>>

ParamInputs == {Keyed(list) : list \in ParamLists} \cup {ExampleParams}

----------------------------------------------------------------------------
(* State machine *)

NoCall ==
    [state |-> "none", url |-> <<>>, method |-> "", body |-> Undefined,
     uri |-> <<>>, value |-> Undefined]

NoResponse == [sent |-> FALSE, data |-> Undefined, errors |-> <<>>]

Init ==
    /\ schema = graphQLSchema
    /\ ctx = [r \in Reqs |->
                [pc |-> "idle", header |-> Undefined, token |-> Undefined,
                 field |-> "", args |-> <<>>]]
    /\ context = [r \in Reqs |-> [token |-> Undefined]]
    /\ call = [c \in Callers |-> NoCall]
    /\ response = [r \in Reqs |-> NoResponse]
    /\ query = [called |-> FALSE, url |-> <<>>, parameters |-> <<>>, result |-> <<>>]

\* koa creates the context of an inbound request.
Receive(r, header) ==
    /\ ctx[r].pc = "idle"
    /\ ctx' = [ctx EXCEPT ![r].pc = "middleware", ![r].header = header]
    /\ UNCHANGED <<schema, context, call, response, query>>

\* The middleware that reads the token from the header, then awaits next().
TokenMiddleware(r) ==
    /\ ctx[r].pc = "middleware"
    /\ ctx' = [ctx EXCEPT ![r].pc = "graphql",
                          ![r].token = StateToken(ctx[r].header)]
    /\ UNCHANGED <<schema, context, call, response, query>>

\* graphqlKoa's options callback: the resolver context of the request.
GraphqlContext(r) ==
    /\ ctx[r].pc = "graphql"
    /\ context' = [context EXCEPT ![r] = [token |-> ctx[r].token]]
    /\ ctx' = [ctx EXCEPT ![r].pc = "execute"]
    /\ UNCHANGED <<schema, call, response, query>>

\* The engine refuses the operation text: one error, no resolver runs.
ParseFails(r) ==
    /\ ctx[r].pc = "execute"
    /\ response' = [response EXCEPT ![r] =
                      [sent |-> TRUE, data |-> Undefined, errors |-> <<formatErr(SyntaxError)>>]]
    /\ ctx' = [ctx EXCEPT ![r].pc = "done"]
    /\ UNCHANGED <<schema, context, call, query>>

\* The engine runs the resolver the schema object holds for a field.
Execute(r, T, field, args) ==
    /\ ctx[r].pc = "execute"
    /\ T \in DOMAIN schema.resolvers
    /\ field \in DOMAIN schema.resolvers[T]
    /\ call' = [call EXCEPT ![r] = Resolve(schema.resolvers[T][field], args)]
    /\ ctx' = [ctx EXCEPT ![r].pc = "awaiting", ![r].field = field, ![r].args = args]
    /\ UNCHANGED <<schema, context, response, query>>

\* generalRequest called by other code than a resolver.
InvokeRequester(reqUrl, method, body) ==
    /\ call[0].state = "none"
    /\ call' = [call EXCEPT ![0] = generalRequest(reqUrl, method, body)]
    /\ UNCHANGED <<schema, ctx, context, response, query>>

\* The outbound request settles and generalRequest returns.
RequestSettles(c, outcome) ==
    /\ call[c].state = "pending"
    /\ call' = [call EXCEPT ![c] = generalRequestReturn(call[c], outcome)]
    /\ UNCHANGED <<schema, ctx, context, response, query>>

\* The engine completes the field: an Error that the resolver returned, or
\* was rejected with, becomes an error of the response, formatted by
\* formatErr; any other value becomes the field's data.
Complete(r) ==
    /\ ctx[r].pc = "awaiting"
    /\ call[r].state \in {"returned", "rejected"}
    /\ response' = [response EXCEPT ![r] =
          IF call[r].value.t = "error"
          THEN [sent |-> TRUE, data |-> Null,
                errors |-> <<formatErr(LocatedError(call[r].value,
                                                    Arr(<<ctx[r].field>>)))>>]
          ELSE [sent |-> TRUE,
                data |-> Obj([k \in {ctx[r].field} |-> call[r].value]),
                errors |-> <<>>]]
    /\ ctx' = [ctx EXCEPT ![r].pc = "done"]
    /\ UNCHANGED <<schema, context, call, query>>

\* addParams called with a url and a parameter mapping (the model follows
\* one invocation).
AddParams(baseUrl, parameters) ==
    /\ ~query.called
    /\ query' = [called |-> TRUE, url |-> baseUrl, parameters |-> parameters,
                 result |-> addParams(baseUrl, parameters)]
    /\ UNCHANGED <<schema, ctx, context, call, response>>

NextAuth ==
    \E r \in Reqs :
        \/ \E header \in Headers : Receive(r, header)
        \/ TokenMiddleware(r)
        \/ GraphqlContext(r)

NextDispatch ==
    \/ \E header \in Headers : Receive(1, header)
    \/ TokenMiddleware(1)
    \/ GraphqlContext(1)
    \/ ParseFails(1)
    \/ \E T \in {"Query", "Mutation"} :
         \E field \in DOMAIN mergedResolvers[T] :
           \E args \in ArgsOf(field) : Execute(1, T, field, args)
    \/ \E outcome \in Outcomes : RequestSettles(1, outcome)
    \/ Complete(1)

NextRequester ==
    \/ \E reqUrl \in DirectUrls, method \in Methods, body \in {Undefined, CoursePayload} :
         InvokeRequester(reqUrl, method, body)
    \/ \E outcome \in Outcomes : RequestSettles(0, outcome)

NextParams ==
    \E baseUrl \in {URL \o <<"/">>}, parameters \in ParamInputs :
        AddParams(baseUrl, parameters)

Next ==
    \/ \E r \in Reqs :
         \/ \E header \in Headers : Receive(r, header)
         \/ TokenMiddleware(r)
         \/ GraphqlContext(r)
         \/ ParseFails(r)
         \/ \E T \in {"Query", "Mutation"} :
              \E field \in DOMAIN mergedResolvers[T] :
                \E args \in ArgsOf(field) : Execute(r, T, field, args)
         \/ Complete(r)
    \/ \E c \in Callers, outcome \in Outcomes : RequestSettles(c, outcome)
    \/ \E reqUrl \in DirectUrls, method \in Methods, body \in {Undefined, CoursePayload} :
         InvokeRequester(reqUrl, method, body)
    \/ \E baseUrl \in {URL \o <<"/">>}, parameters \in ParamInputs :
         AddParams(baseUrl, parameters)

Spec == Init /\ [][Next]_vars

\* Concurrent requests through the middleware and the context callback.
SpecAuth == Init /\ [][NextAuth]_vars

\* One request from its arrival to its response.
SpecDispatch == Init /\ [][NextDispatch]_vars

\* generalRequest on its own, over urls, methods, bodies and outcomes.
SpecRequester == Init /\ [][NextRequester]_vars

\* addParams on its own, over parameter mappings.
SpecParams == Init /\ [][NextParams]_vars

----------------------------------------------------------------------------
(* Claims *)

QueryFields == {"allCourses", "courseByCode", "allStudents", "studentByCode"}

MutationFields ==
    {"createCourse", "updateCourse", "deleteCourse",
     "createStudent", "updateStudent", "deleteStudent"}

\* C1: the composed schema text declares, in its single Query block and
\* single Mutation block, exactly the query and mutation fields of both
\* resources, and the Course, CourseInput, Student and StudentInput types.
C1_ComposedDeclaresBothResources ==
    /\ Declarations(schema.typeDefs, "type", "Query") = 1
    /\ Declarations(schema.typeDefs, "type", "Mutation") = 1
    /\ BlockFields(schema.typeDefs, "Query") = QueryFields
    /\ BlockFields(schema.typeDefs, "Mutation") = MutationFields
    /\ {"Course", "Student"} \subseteq Declared(schema.typeDefs, "type")
    /\ {"CourseInput", "StudentInput"} \subseteq Declared(schema.typeDefs, "input")

\* The base url and the declared payload argument of each resource.
BaseOf(field) ==
    IF field \in {"allCourses", "courseByCode", "createCourse", "updateCourse",
                  "deleteCourse"}
    THEN <<"http://", url, ":", port, "/", entryPoint>>
    ELSE <<"http://", url_1, ":", port_1, "/", entryPoint_1>>

PayloadArgOf(field) ==
    IF field \in {"createCourse", "updateCourse"} THEN "course" ELSE "student"

\* A resolver has run for request r.
Executed(r) == call[r].state # "none"

\* C2: a create mutation POSTs to the resource's base url, and an update
\* mutation PUTs to {baseUrl}/{code}, with the payload of the mutation's
\* declared input argument as the body; the body is never absent when the
\* caller supplied a payload.
C2_MutationBodyIsPayload ==
    \A r \in Reqs :
        (Executed(r) /\ ctx[r].field \in {"createCourse", "updateCourse",
                                          "createStudent", "updateStudent"})
        => /\ call[r].body = ctx[r].args[PayloadArgOf(ctx[r].field)]
           /\ call[r].body # Undefined
           /\ IF ctx[r].field \in {"createCourse", "createStudent"}
              THEN call[r].method = "POST" /\ call[r].uri = BaseOf(ctx[r].field)
              ELSE /\ call[r].method = "PUT"
                   /\ call[r].uri = BaseOf(ctx[r].field)
                                      \o <<"/", ToString(ctx[r].args["code"].n)>>

\* C3: generalRequest never rejects: whatever the url, method, body and
\* outcome, an invocation is pending or has returned a value.
C3_RequesterNeverRejects ==
    \A c \in Callers : call[c].state # "rejected"

\* The query string as C4 describes it: per own truthy parameter, one
\* 'key=value&' segment for a scalar, one 'key=v_i&' segment per element
\* for an array.
RECURSIVE ClaimedSegments(_)
ClaimedSegments(parameters) ==
    IF parameters = <<>> THEN <<>>
    ELSE LET p == Head(parameters)
             one == IF ~(p.own /\ Truthy(p.value)) THEN <<>>
                    ELSE IF p.value.t = "arr"
                    THEN Join([i \in 1..Len(p.value.elems) |->
                                  <<p.key, "=", p.value.elems[i], "&">>], <<>>)
                    ELSE <<p.key, "=">> \o ToText(p.value) \o <<"&">>
         IN  one \o ClaimedSegments(Tail(parameters))

\* C4: addParams returns baseUrl + '?' followed by the segments of the own
\* truthy parameters in order; an array of n elements contributes exactly n
\* segments, and falsy values contribute nothing.
C4_BuildQueryAsClaimed ==
    query.called
    => query.result = query.url \o <<"?">> \o ClaimedSegments(query.parameters)

\* The executor error of a request that ended with an error.
EngineError(r) ==
    IF call[r].state = "none" THEN SyntaxError
    ELSE LocatedError(call[r].value, Arr(<<ctx[r].field>>))

\* The original error carries a nested error object with id, code and
\* description.
HasStructuredError(error) ==
    /\ Truthy(error.originalError)
    /\ Get(error.originalError, "error").t = "obj"
    /\ {"id", "code", "description"} \subseteq DOMAIN Get(error.originalError, "error").props

\* C5: formatErr returns {message: id, code, description, path} exactly
\* when the original error carries a nested error object with id, code and
\* description; otherwise it returns the default formatting unchanged.
C5_NormalizerAsClaimed ==
    \A r \in Reqs :
        (ctx[r].pc = "done" /\ response[r].errors # <<>>)
        => LET error == EngineError(r)
               nested == Get(error.originalError, "error")
           IN  response[r].errors[1] =
                 IF HasStructuredError(error)
                 THEN [message |-> nested.props["id"], code |-> nested.props["code"],
                       description |-> nested.props["description"],
                       path |-> error.path]
                 ELSE [message |-> error.message, locations |-> error.locations,
                       path |-> error.path]

\* C6: a request whose backend call failed completes with no data for the
\* field and one error that has a non-empty message and the field's path.
C6_FailureKeepsMessage ==
    \A r \in Reqs :
        (ctx[r].pc = "done" /\ call[r].state = "returned" /\ call[r].value.t = "error")
        => /\ response[r].sent
           /\ ~Truthy(response[r].data)
           /\ Len(response[r].errors) = 1
           /\ response[r].errors[1].message.t = "str"
           /\ response[r].errors[1].message.s # ""
           /\ response[r].errors[1].path = Arr(<<ctx[r].field>>)

\* The token of a header as C7 describes it: the whole of what follows
\* 'Bearer ' when the header is 'Bearer <token>', absent otherwise.
ClaimedToken(header) ==
    IF /\ header # Undefined
       /\ Len(header.chars) > Len(BearerLiteral)
       /\ SubSeq(header.chars, 1, Len(BearerLiteral)) = BearerLiteral
    THEN Text(SubSeq(header.chars, Len(BearerLiteral) + 1, Len(header.chars)))
    ELSE Undefined

\* C7: under any interleaving of requests, the token in a request's
\* resolver context is the whole bearer token of that request's own
\* Authorization header, and is absent when the header is missing or is
\* not 'Bearer <token>'.
C7_TokenOfOwnHeader ==
    \A r \in Reqs :
        ctx[r].pc \in {"execute", "awaiting", "done"}
        => context[r].token = ClaimedToken(ctx[r].header)

\* C8: the composed schema text declares 'scalar JSON' exactly once, though
\* both the courses and the students fragment lists hold the declaration.
C8_ScalarJSONOnce ==
    Declarations(schema.typeDefs, "scalar", "JSON") = 1

C8_BothListsHoldScalar ==
    /\ \E i \in 1..Len(mergeArguments[1]) : mergeArguments[1][i] = ScalarJSON
    /\ \E i \in 1..Len(mergeArguments[4]) : mergeArguments[4][i] = ScalarJSON
    /\ Declarations(schema.typeDefs, "type", "Query") = 1
    /\ Declarations(schema.typeDefs, "scalar", "JSON") = 1

\* The outbound call of each field, with what the list fields append to the
\* base url given as a parameter.
CallIs(r, listTail) ==
    LET field == ctx[r].field
        base == BaseOf(field)
        byCode == base \o <<"/", ToString(ctx[r].args["code"].n)>>
    IN  CASE field \in {"allCourses", "allStudents"} ->
                  call[r].method = "GET" /\ call[r].uri = base \o listTail
                    /\ call[r].body = Undefined
             [] field \in {"courseByCode", "studentByCode"} ->
                  call[r].method = "GET" /\ call[r].uri = byCode
                    /\ call[r].body = Undefined
             [] field \in {"deleteCourse", "deleteStudent"} ->
                  call[r].method = "DELETE" /\ call[r].uri = byCode
                    /\ call[r].body = Undefined
             [] field \in {"createCourse", "createStudent"} ->
                  call[r].method = "POST" /\ call[r].uri = base
             [] field \in {"updateCourse", "updateStudent"} ->
                  call[r].method = "PUT" /\ call[r].uri = byCode

\* C9 as stated: every field resolver issues one call to its own resource,
\* the list fields GET exactly '{baseUrl}/' with no query-string characters,
\* byCode GET and delete DELETE '{baseUrl}/{code}' without a body, create
\* POST '{baseUrl}', update PUT '{baseUrl}/{code}'.
C9_ListWithoutQueryChars ==
    \A r \in Reqs : Executed(r) => CallIs(r, <<"/">>)

\* C9 amended: as stated, except that the list fields GET '{baseUrl}/?',
\* the url that addParams returns for no parameters.
C9_OutboundCalls ==
    \A r \in Reqs : Executed(r) => CallIs(r, <<"/", "?">>)

C9_ListFieldCalled ==
    \E r \in Reqs :
        /\ Executed(r)
        /\ ctx[r].field = "allStudents"
        /\ call[r].uri = <<"http://", url_1, ":", port_1, "/", entryPoint_1, "/", "?">>

\* C10: the merged resolver map holds exactly one resolver per query field
\* (4) and per mutation field (6), each its own, and every resolver key is
\* a field the composed text declares in the corresponding block.
C10_ResolversMatchSchema ==
    /\ DOMAIN schema.resolvers["Query"] = QueryFields
    /\ DOMAIN schema.resolvers["Mutation"] = MutationFields
    /\ \A T \in {"Query", "Mutation"} :
         \A f \in DOMAIN schema.resolvers[T] :
            /\ schema.resolvers[T][f] = f
            /\ f \in BlockFields(schema.typeDefs, T)
    /\ schema.notInSchema = {}

====
